---- MODULE Spec2Model ----
(***************************************************************************)
(* Model of python-backend/server.py: the FastAPI transport of the AI      *)
(* proctoring service.  The request/response endpoints (/calibrate,        *)
(* /environment-check, /process-frame) and the streaming endpoint          *)
(* /ws/proctoring/{session_id} are coroutines of one asyncio event loop;   *)
(* a coroutine runs without interruption from one await to the next.       *)
(* ProctoringService (proctoring_service.py) is called by the transport    *)
(* but is not part of the sources; its behaviour is modelled from the      *)
(* specification document (sections 4.1 - 4.3).                            *)
(***************************************************************************)
EXTENDS Integers, Sequences, FiniteSets, TLC

\* ------------------------------------------------------------ bounds
MaxTime == 2        \* ticks of the wall clock
MaxFaces == 2       \* most faces the perception adapter reports in the cal/env checks

\* --------------------------------------------------------- constants
NoiseThreshold == 50      \* server.py:225
DefaultBaseline == 0      \* server.py:212-213  message.get('calibrated_pitch', 0.0)
DefaultAudioLevel == 0    \* server.py:224      message.get('audio_level', 0)
HystN == 3                \* spec 4.2 / 8: N consecutive frames
AngleThreshold == 15      \* spec 8: angular threshold in degrees
Cooldown == 2             \* spec 4.2: minimum ticks between two events of a kind
LightMin == 40            \* spec 4.3: lighting minimum threshold
CenterTol == 1            \* spec 4.3: centering tolerance

Conns == {"w1", "w2"}     \* streaming connections (one handler coroutine each)
Reqs == {"h1"}            \* POST /process-frame requests
Tasks == Conns \cup Reqs
Sids == {"A", "B"}        \* session ids
None == "none"

VARIABLES
    pc,                  \* where each handler coroutine stands
    tsid,                \* the session id each handler was given
    active_connections,  \* server.py:54, session id -> websocket (connection) or None
    loop,                \* the coroutine that is running on the event loop, or None
    cur,                 \* the decoded frame and baseline a handler passed to the service
    call,                \* how the service call in progress will end
    pending,             \* the message a streaming handler is about to send
    last,                \* per connection: the last handled message and its response
    noiseAt,             \* per session: when its last excessive_noise event was made
    ended,               \* how a streaming handler terminated
    resp,                \* the response of a request/response call
    sess,                \* the service's per-session state store
    solo,                \* each session's state had it been served alone
    torn,                \* session ids whose teardown has completed
    now,                 \* wall clock
    calReq, calResp,     \* a /calibrate exchange
    envReq, envResp,     \* an /environment-check exchange
    rec,                 \* whether the history of the sessions' frames is kept
    trail,               \* per session: the last HystN frames handed to the service
    verdict,             \* per session: the violations of its latest frame
    emitAt               \* per session and kind: when the kind was last returned

vars == <<pc, tsid, active_connections, loop, cur, call, pending, last, noiseAt, ended, resp, sess, solo, torn, now, calReq, calResp, envReq, envResp, rec, trail, verdict, emitAt>>

calVars == <<calReq, calResp, envReq, envResp>>
histVars == <<rec, trail, verdict, emitAt>>

Abs(x) == IF x < 0 THEN -x ELSE x
Min(a, b) == IF a < b THEN a ELSE b

\* ------------------------------------------------ frames and decoding
\* What the perception adapter sees in a decoded frame.
Percept(f, pi, y, o) == [faces |-> f, pitch |-> pi, yaw |-> y, obj |-> o]
NoPercept == Percept(0, 0, 0, "none")

\* A chunk of a frame string between commas: a data-URL header, the base64 of an
\* image, the base64 of bytes that are no image, or text that is no base64.
Chunk(k, p) == [kind |-> k, p |-> p]
Header == Chunk("hdr", NoPercept)

\* server.py:81/112/147/204  s.split(',')[1] if ',' in s else s
StripPrefix(parts) == IF Len(parts) > 1 THEN parts[2] ELSE parts[1]

\* base64.b64decode: raises on text that is no base64, else yields bytes
B64Raises(chunk) == chunk.kind = "badb64"

\* cv2.imdecode: the pixel array, or None when the bytes are no image
ImDecodes(chunk) == chunk.kind = "img"

\* The outcome of the decoding lines of an entry point: "raise", "none" or "ok".
Decode(parts) ==
    LET c == StripPrefix(parts) IN
    IF B64Raises(c) THEN "raise"
    ELSE IF ImDecodes(c) THEN "ok" ELSE "none"

Pixels(parts) == StripPrefix(parts).p

\* --------------------------------- the service, from the specification
Kinds == {"no_person", "multiple_faces", "looking_away", "phone_detected", "book_detected"}

\* spec 4.2: consecutive positive frames a kind needs before it is emitted
NeedN(k) == IF k = "looking_away" THEN HystN ELSE 1

\* spec 4.2, the trigger condition of each kind for one frame
Cond(k, p, base) ==
    CASE k = "no_person" -> p.faces = 0
      [] k = "multiple_faces" -> p.faces > 1
      [] k = "looking_away" ->
            /\ p.faces >= 1
            /\ \/ Abs(p.pitch - base[1]) > AngleThreshold
               \/ Abs(p.yaw - base[2]) > AngleThreshold
      [] k = "phone_detected" -> p.obj = "phone"
      [] k = "book_detected" -> p.obj = "book"

\* spec 3: a session created lazily on the first frame that names its id
NewSession == [cnt |-> [k \in Kinds |-> 0], last |-> [k \in Kinds |-> -1]]

\* spec 4.2: the debounce counter of kind k after a frame
NextCnt(st, k, p, base) ==
    IF Cond(k, p, base) THEN Min(st.cnt[k] + 1, NeedN(k)) ELSE 0

\* spec 4.2: kind k is emitted on this frame
Emits(st, k, p, base, t) ==
    /\ Cond(k, p, base)
    /\ NextCnt(st, k, p, base) >= NeedN(k)
    /\ (st.last[k] = -1 \/ t - st.last[k] >= Cooldown)

\* spec 6: process_frame(frame, session_id, baseline_pitch, baseline_yaw)
Classify(st, p, base, t) ==
    [state |-> [cnt |-> [k \in Kinds |-> NextCnt(st, k, p, base)],
                last |-> [k \in Kinds |-> IF Emits(st, k, p, base, t) THEN t
                                          ELSE st.last[k]]],
     events |-> {k \in Kinds : Emits(st, k, p, base, t)}]

\* ------------------------------------------------- the streaming inputs
Absent == Percept(0, 0, 0, "none")
Centred == Percept(1, 0, 0, "none")
Turned == Percept(1, 0, 20, "none")

\* the frame strings that carry the images of ps, undecodable ones (when bad), and
\* each with and without a data-URL header before the comma
FrameStrings(ps, bad) ==
    LET payloads == {Chunk("img", p) : p \in ps}
                       \cup (IF bad THEN {Chunk("junk", NoPercept), Chunk("badb64", NoPercept)}
                             ELSE {})
    IN {<<c>> : c \in payloads} \cup {<<Header, c>> : c \in payloads}

\* frame messages: the frame string and the optional calibrated_pitch / _yaw
FrameMsgs(ps, bad, hbs, bases) ==
    {[frame |-> fs, hasBase |-> hb, base |-> b] :
        fs \in FrameStrings(ps, bad), hb \in hbs, b \in bases}

AudioMsgs == {[hasLevel |-> FALSE, level |-> 0]}
                \cup {[hasLevel |-> TRUE, level |-> l] : l \in {50, 80}}

\* server.py:212-213
BaselineOf(m) == IF m.hasBase THEN m.base ELSE <<DefaultBaseline, DefaultBaseline>>
\* server.py:224
AudioLevelOf(m) == IF m.hasLevel THEN m.level ELSE DefaultAudioLevel

\* the noise test with the threshold missed
IsNoisyAbove80(level) == level > 80

\* the noise test with the threshold itself counted as noisy
IsNoisyAtThreshold(level) == level >= NoiseThreshold

\* server.py:225
IsNoisy(level) == level > NoiseThreshold

\* one handled message of a connection and the response it got: the kind of the
\* message, the type of the response ("none": nothing was sent), the audio level,
\* the event's timestamp, the time of the session's previous excessive_noise event,
\* the violations of a detection result and those the session yields served alone,
\* the severity the response carries ("": it carries none)
Entry(in, out, lvl, ts, prev, ev, al) ==
    [in |-> in, out |-> out, lvl |-> lvl, ts |-> ts, prev |-> prev, ev |-> ev,
     alone |-> al, sev |-> ""]
\* server.py:226-234: the violation message sent for a noisy sample
NoiseViolation(lvl, ts, prev) ==
    [Entry("audio", "excessive_noise", lvl, ts, prev, {}, {}) EXCEPT !.sev = "medium"]
Silent(in) == Entry(in, "none", 0, 0, -1, {}, {})
NoEntry == Silent("none")
NoCall == [p |-> NoPercept, base |-> <<0, 0>>]
\* the response of a /process-frame request: its status (0: none yet), the
\* violations, and how the decoding of the request's frame ended
NoResp == [status |-> 0, ev |-> {}, alone |-> {}, dec |-> "none yet"]
Failed(status, dec) == [status |-> status, ev |-> {}, alone |-> {}, dec |-> dec]

\* the last n elements of a sequence
LastN(q, n) == IF Len(q) <= n THEN q ELSE SubSeq(q, Len(q) - n + 1, Len(q))

\* the violations returned for a session's latest frame, when, and when each kind
\* had last been returned for the session before
NoVerdict == [ev |-> {}, t |-> 0, prev |-> [k \in Kinds |-> -1]]

\* the registry left as it is when a handler ends
TeardownKeeps(ac, s) == ac

\* one key for every caller instead of the caller's session id
SessionKeyShared(t) == "A"

\* server.py:211 / 157: the key the service is given for the session state
SessionKey(t) == tsid[t]

\* the service call dispatched off the event loop (a worker thread), which then
\* runs other coroutines while the call is in progress
ServiceHolderOffLoop(t) == None

\* server.py:209 / 155: the service is called synchronously inside the coroutine,
\* so the coroutine keeps the event loop until the call ends
ServiceHolder(t) == t

\* server.py:241-242 / 245-246
Teardown(ac, s) == [ac EXCEPT ![s] = None]

\* ------------------------------------- /calibrate and /environment-check
\* What the perception adapter sees in a frame given to the environment check: the
\* faces, the mean luminance, the offset of the face from the frame's centre.
Scene(f, lum, off) == [faces |-> f, lum |-> lum, off |-> off]

MultipleFaces == "multiple faces detected - calibration requires solitary subject"

\* spec 4.1: ProctoringService.calibrate_head_pose
CalibrateHeadPose(p) ==
    IF p.faces = 1
    THEN [success |-> TRUE, pitch |-> p.pitch, yaw |-> p.yaw, hasMessage |-> FALSE,
          message |-> ""]
    ELSE [success |-> FALSE, pitch |-> 0, yaw |-> 0, hasMessage |-> TRUE,
          message |-> IF p.faces = 0 THEN "no face detected"
                      ELSE MultipleFaces]

\* spec 4.3: ProctoringService.check_environment
ServiceCheckEnvironment(sc) ==
    [lighting_ok |-> sc.lum >= LightMin,
     face_detected |-> sc.faces >= 1,
     face_centered |-> sc.faces >= 1 /\ Abs(sc.off) <= CenterTol,
     message |-> IF sc.lum >= LightMin /\ sc.faces >= 1 /\ Abs(sc.off) <= CenterTol
                 THEN "Environment check passed" ELSE "Environment check failed"]

\* CalibrationResponse: pitch and yaw are None unless given
CalibrationResponse(ok, hasPose, pitch, yaw, msg) ==
    [phase |-> "out", success |-> ok, hasPose |-> hasPose, pitch |-> pitch,
     yaw |-> yaw, message |-> msg]

\* the success branch with the two angles exchanged
CalibrationSuccessSwapped(result) ==
    CalibrationResponse(TRUE, TRUE, result.yaw, result.pitch, "Calibration successful")

\* server.py:92-97
CalibrationSuccess(result) ==
    CalibrationResponse(TRUE, TRUE, result.pitch, result.yaw, "Calibration successful")

\* the failure branch that drops the service's reason
CalibrationFailureGeneric(result) ==
    CalibrationResponse(FALSE, FALSE, 0, 0, "Calibration failed")

\* server.py:99-102  message=result.get('message', 'Calibration failed')
CalibrationFailure(result) ==
    CalibrationResponse(FALSE, FALSE, 0, 0,
                        IF result.hasMessage THEN result.message ELSE "Calibration failed")

\* server.py:77-105: the response of calibrate to a request
CalibrateResponse(req) ==
    CASE Decode(req.frame) = "raise" ->
              \* except Exception (103-105): message=str(e)
              CalibrationResponse(FALSE, FALSE, 0, 0, "error: b64decode")
      [] Decode(req.frame) = "none" ->
              CalibrationResponse(FALSE, FALSE, 0, 0, "Invalid frame data")
      [] Decode(req.frame) = "ok" ->
              IF req.svc = "raises"
              THEN CalibrationResponse(FALSE, FALSE, 0, 0, "error: service")
              ELSE IF CalibrateHeadPose(Pixels(req.frame)).success
                   THEN CalibrationSuccess(CalibrateHeadPose(Pixels(req.frame)))
                   ELSE CalibrationFailure(CalibrateHeadPose(Pixels(req.frame)))

\* EnvironmentCheck; kind tells a result from an error response
EnvironmentCheck(kind, l, d, c, msg) ==
    [phase |-> "out", kind |-> kind, lighting_ok |-> l, face_detected |-> d,
     face_centered |-> c, message |-> msg]

\* the except clause answering with an error, as process_frame's does (185-187)
EnvironmentErrorRaised(msg) ==
    EnvironmentCheck("http_error", FALSE, FALSE, FALSE, msg)

\* server.py:133-140
EnvironmentError(msg) ==
    EnvironmentCheck("result", FALSE, FALSE, FALSE, msg)

\* server.py:127-132
EnvironmentResult(result) ==
    EnvironmentCheck("result", result.lighting_ok, result.face_detected,
                     result.face_centered, result.message)

\* server.py:108-140: the response of check_environment to a request
CheckEnvironmentResponse(req) ==
    CASE Decode(req.frame) = "raise" -> EnvironmentError("error: b64decode")
      [] Decode(req.frame) = "none" ->
              \* server.py:116-122
              EnvironmentCheck("result", FALSE, FALSE, FALSE, "Invalid frame data")
      [] Decode(req.frame) = "ok" ->
              IF req.svc = "raises" THEN EnvironmentError("error: service")
              ELSE EnvironmentResult(ServiceCheckEnvironment(Pixels(req.frame)))

Angles == {0, 20}
CalRequests ==
    {[phase |-> "in", frame |-> fs, svc |-> o] :
        fs \in FrameStrings({Percept(f, pi, y, "none") :
                                f \in 0..MaxFaces, pi \in Angles, y \in Angles}, TRUE),
        o \in {"returns", "raises"}}
EnvRequests ==
    {[phase |-> "in", frame |-> fs, svc |-> o] :
        fs \in FrameStrings({Scene(f, lum, off) :
                                f \in 0..MaxFaces, lum \in {10, 90}, off \in {0, 3}}, TRUE),
        o \in {"returns", "raises"}}

TypeOK ==
    /\ pc \in [Tasks -> {"closed", "accepting", "recv", "svc", "send", "done", "idle"}]
    /\ tsid \in [Tasks -> Sids]
    /\ active_connections \in [Sids -> Conns \cup {None}]
    /\ loop \in Tasks \cup {None}
    /\ call \in [Tasks -> {"none", "returns", "raises", "never"}]
    /\ noiseAt \in [Sids -> -1..MaxTime]
    /\ torn \subseteq Sids
    /\ now \in 0..MaxTime

InitTransport ==
    /\ pc = [t \in Tasks |-> IF t \in Conns THEN "closed" ELSE "idle"]
    /\ tsid = [t \in Tasks |-> "A"]
    /\ active_connections = [s \in Sids |-> None]
    /\ loop = None
    /\ cur = [t \in Tasks |-> NoCall]
    /\ call = [t \in Tasks |-> "none"]
    /\ pending = [c \in Conns |-> NoEntry]
    /\ last = [c \in Conns |-> NoEntry]
    /\ noiseAt = [s \in Sids |-> -1]
    /\ ended = [c \in Conns |-> "no"]
    /\ resp = [h \in Reqs |-> NoResp]
    /\ sess = [s \in Sids |-> NewSession]
    /\ solo = [s \in Sids |-> NewSession]
    /\ torn = {}
    /\ now = 0

InitCalOff ==
    /\ calReq = [phase |-> "off"]
    /\ calResp = [phase |-> "off"]
    /\ envReq = [phase |-> "off"]
    /\ envResp = [phase |-> "off"]

\* no frame has been handed to the service yet
InitHistory ==
    /\ trail = [s \in Sids |-> <<>>]
    /\ verdict = [s \in Sids |-> NoVerdict]
    /\ emitAt = [s \in Sids |-> [k \in Kinds |-> -1]]

Init == InitTransport /\ InitCalOff /\ InitHistory /\ rec = FALSE

\* the same state, with the history of the sessions' frames kept
InitRecorded == InitTransport /\ InitCalOff /\ InitHistory /\ rec = TRUE

\* ------------------------------------------------ the streaming handler
\* A client opens /ws/proctoring/{s}: the handler starts and awaits accept (192).
Connect(c, s) ==
    /\ pc[c] = "closed"
    /\ pc' = [pc EXCEPT ![c] = "accepting"]
    /\ tsid' = [tsid EXCEPT ![c] = s]
    /\ UNCHANGED <<active_connections, loop, cur, call, pending, last, noiseAt,
                   ended, resp, sess, solo, torn, now>>
    /\ UNCHANGED calVars
    /\ UNCHANGED histVars

\* accept returned: register the websocket (193-194), then await receive_text (199).
Register(c) ==
    /\ pc[c] = "accepting"
    /\ loop = None
    /\ active_connections' = [active_connections EXCEPT ![tsid[c]] = c]
    /\ torn' = torn \ {tsid[c]}
    /\ pc' = [pc EXCEPT ![c] = "recv"]
    /\ UNCHANGED <<tsid, loop, cur, call, pending, last, noiseAt, ended, resp,
                   sess, solo, now>>
    /\ UNCHANGED calVars
    /\ UNCHANGED histVars

\* The handler leaves the loop through one of its except clauses (239-246).
Terminate(c, how) ==
    /\ active_connections' = Teardown(active_connections, tsid[c])
    /\ torn' = torn \cup {tsid[c]}
    /\ pc' = [pc EXCEPT ![c] = "done"]
    /\ ended' = [ended EXCEPT ![c] = how]
    /\ loop' = None
    /\ call' = [call EXCEPT ![c] = "none"]
    /\ cur' = [cur EXCEPT ![c] = NoCall]

\* A message has been handled and nothing was sent for it.
Unanswered(c, in) == last' = [last EXCEPT ![c] = Silent(in)]

\* receive_text raises WebSocketDisconnect (199, 239-242).
Disconnect(c) ==
    /\ pc[c] = "recv"
    /\ loop = None
    /\ Terminate(c, "disconnect")
    /\ UNCHANGED <<tsid, pending, last, noiseAt, resp, sess, solo, now>>
    /\ UNCHANGED calVars
    /\ UNCHANGED histVars

\* A frame message (202-220); outcome is how the service call, if made, will end.
RecvFrame(c, m, outcome) ==
    /\ pc[c] = "recv"
    /\ loop = None
    /\ CASE Decode(m.frame) = "raise" ->
              \* b64decode raises: except Exception (243-246)
              /\ Terminate(c, "exception")
              /\ Unanswered(c, "frame_b64err")
              /\ UNCHANGED <<tsid, pending, noiseAt, resp, sess, solo, now>>
         [] Decode(m.frame) = "none" ->
              \* frame is None: nothing is sent, back to receive_text (208, 199)
              /\ Unanswered(c, "frame_noimg")
              /\ UNCHANGED <<pc, tsid, active_connections, loop, cur, call, pending,
                             noiseAt, ended, resp, sess, solo, torn, now>>
         [] Decode(m.frame) = "ok" ->
              \* proctoring_service.process_frame is entered (209-214)
              /\ call' = [call EXCEPT ![c] = outcome]
              /\ cur' = [cur EXCEPT ![c] = [p |-> Pixels(m.frame), base |-> BaselineOf(m)]]
              /\ pc' = [pc EXCEPT ![c] = "svc"]
              /\ loop' = ServiceHolder(c)
              /\ UNCHANGED <<tsid, active_connections, pending, last, noiseAt,
                             ended, resp, sess, solo, torn, now>>
    /\ UNCHANGED calVars
    /\ UNCHANGED histVars

\* An audio message (222-234).
RecvAudio(c, m) ==
    /\ pc[c] = "recv"
    /\ loop = None
    /\ IF IsNoisy(AudioLevelOf(m))
       THEN /\ pending' = [pending EXCEPT ![c] =
                   NoiseViolation(AudioLevelOf(m), now, noiseAt[tsid[c]])]
            /\ noiseAt' = [noiseAt EXCEPT ![tsid[c]] = now]
            /\ pc' = [pc EXCEPT ![c] = "send"]
            /\ UNCHANGED last
       ELSE /\ last' = [last EXCEPT ![c] =
                   Entry("audio", "none", AudioLevelOf(m), 0, -1, {}, {})]
                    /\ UNCHANGED <<pc, pending, noiseAt>>
    /\ UNCHANGED <<tsid, active_connections, loop, cur, call, ended, resp, sess, solo,
                   torn, now>>
    /\ UNCHANGED calVars
    /\ UNCHANGED histVars

\* A ping message (236-237).
RecvPing(c) ==
    /\ pc[c] = "recv"
    /\ loop = None
    /\ pending' = [pending EXCEPT ![c] = Entry("ping", "pong", 0, 0, -1, {}, {})]
    /\ pc' = [pc EXCEPT ![c] = "send"]
    /\ UNCHANGED <<tsid, active_connections, loop, cur, call, last, noiseAt,
                   ended, resp, sess, solo, torn, now>>
    /\ UNCHANGED calVars
    /\ UNCHANGED histVars

\* A message of another type: no branch matches, back to receive_text (202-237).
RecvOther(c) ==
    /\ pc[c] = "recv"
    /\ loop = None
    /\ Unanswered(c, "other")
    /\ UNCHANGED <<pc, tsid, active_connections, loop, cur, call, pending, noiseAt,
                   ended, resp, sess, solo, torn, now>>
    /\ UNCHANGED calVars
    /\ UNCHANGED histVars

\* Text that is no JSON (json.loads raises, 200), JSON without 'type' (KeyError,
\* 202), a frame message without 'frame' (KeyError, 204): except Exception (243-246).
RecvBroken(c, what) ==
    /\ pc[c] = "recv"
    /\ loop = None
    /\ Terminate(c, "exception")
    /\ Unanswered(c, what)
    /\ UNCHANGED <<tsid, pending, noiseAt, resp, sess, solo, now>>
    /\ UNCHANGED calVars
    /\ UNCHANGED histVars

\* await websocket.send_json (217, 226, 237), then back to receive_text.
Send(c) ==
    /\ pc[c] = "send"
    /\ loop = None
    /\ last' = [last EXCEPT ![c] = pending[c]]
    /\ pending' = [pending EXCEPT ![c] = NoEntry]
    /\ pc' = [pc EXCEPT ![c] = "recv"]
    /\ UNCHANGED <<tsid, active_connections, loop, cur, call, noiseAt, ended, resp,
                   sess, solo, torn, now>>
    /\ UNCHANGED calVars
    /\ UNCHANGED histVars

\* ------------------------------------------------ the service call ends
\* proctoring_service.process_frame returns its result.
ServiceReturn(t) ==
    /\ pc[t] = "svc"
    /\ call[t] = "returns"
    /\ loop = ServiceHolder(t)
    /\ LET r == Classify(sess[SessionKey(t)], cur[t].p, cur[t].base, now)
           a == Classify(solo[tsid[t]], cur[t].p, cur[t].base, now)
       IN /\ sess' = [sess EXCEPT ![SessionKey(t)] = r.state]
          /\ solo' = [solo EXCEPT ![tsid[t]] = a.state]
          /\ IF t \in Conns
             THEN /\ pending' = [pending EXCEPT ![t] =
                         Entry("frame", "detection_result", 0, 0, -1, r.events, a.events)]
                  /\ pc' = [pc EXCEPT ![t] = "send"]
                  /\ UNCHANGED resp
             ELSE /\ resp' = [resp EXCEPT ![t] =
                         [status |-> 200, ev |-> r.events, alone |-> a.events, dec |-> "ok"]]
                  /\ pc' = [pc EXCEPT ![t] = "done"]
                  /\ UNCHANGED pending
    /\ loop' = None
    /\ call' = [call EXCEPT ![t] = "none"]
    /\ cur' = [cur EXCEPT ![t] = NoCall]
    /\ IF rec
       THEN LET r == Classify(sess[SessionKey(t)], cur[t].p, cur[t].base, now)
                s == tsid[t]
            IN /\ trail' = [trail EXCEPT ![s] = LastN(Append(@, cur[t]), HystN)]
               /\ verdict' = [verdict EXCEPT ![s] =
                                 [ev |-> r.events, t |-> now, prev |-> emitAt[s]]]
               /\ emitAt' = [emitAt EXCEPT ![s] =
                                [k \in Kinds |-> IF k \in r.events THEN now ELSE @[k]]]
       ELSE UNCHANGED <<trail, verdict, emitAt>>
    /\ UNCHANGED <<tsid, active_connections, last, noiseAt, ended, torn, now, rec>>
    /\ UNCHANGED calVars

\* proctoring_service.process_frame raises.
ServiceRaise(t) ==
    /\ pc[t] = "svc"
    /\ call[t] = "raises"
    /\ loop = ServiceHolder(t)
    /\ IF t \in Conns
       THEN \* except Exception (243-246)
            /\ Terminate(t, "exception")
            /\ Unanswered(t, "frame")
            /\ UNCHANGED resp
       ELSE \* except Exception: HTTPException(500) (185-187)
            /\ resp' = [resp EXCEPT ![t] = Failed(500, "ok")]
            /\ pc' = [pc EXCEPT ![t] = "done"]
            /\ loop' = None
            /\ call' = [call EXCEPT ![t] = "none"]
            /\ cur' = [cur EXCEPT ![t] = NoCall]
            /\ UNCHANGED <<active_connections, last, ended, torn>>
    /\ UNCHANGED <<tsid, pending, noiseAt, sess, solo, now>>
    /\ UNCHANGED calVars
    /\ UNCHANGED histVars

\* ------------------------------------------------- POST /process-frame
HttpProcessFrame(h, s, m, outcome) ==
    /\ pc[h] = "idle"
    /\ loop = None
    /\ tsid' = [tsid EXCEPT ![h] = s]
    /\ CASE Decode(m.frame) = "raise" ->
              \* except Exception: HTTPException(500) (185-187)
              /\ resp' = [resp EXCEPT ![h] = Failed(500, "raise")]
              /\ pc' = [pc EXCEPT ![h] = "done"]
              /\ UNCHANGED <<loop, cur, call>>
         [] Decode(m.frame) = "none" ->
              \* HTTPException(400) is raised inside the try (152) and caught by
              \* except Exception, which raises HTTPException(500) (185-187)
              /\ resp' = [resp EXCEPT ![h] = Failed(500, "none")]
              /\ pc' = [pc EXCEPT ![h] = "done"]
              /\ UNCHANGED <<loop, cur, call>>
         [] Decode(m.frame) = "ok" ->
              /\ call' = [call EXCEPT ![h] = outcome]
              /\ cur' = [cur EXCEPT ![h] = [p |-> Pixels(m.frame), base |-> m.base]]
              /\ pc' = [pc EXCEPT ![h] = "svc"]
              /\ loop' = ServiceHolder(h)
              /\ UNCHANGED resp
    /\ UNCHANGED <<active_connections, pending, last, noiseAt, ended, sess,
                   solo, torn, now>>
    /\ UNCHANGED calVars
    /\ UNCHANGED histVars

\* The wall clock advances.
Tick ==
    /\ now < MaxTime
    /\ now' = now + 1
    /\ UNCHANGED <<pc, tsid, active_connections, loop, cur, call, pending, last, noiseAt, ended, resp, sess, solo, torn>>
    /\ UNCHANGED calVars
    /\ UNCHANGED histVars

\* --------------------------------------------- POST /calibrate (76-105)
Calibrate(req) ==
    /\ loop = None
    /\ calReq' = req
    /\ calResp' = CalibrateResponse(req)
    /\ UNCHANGED <<pc, tsid, active_connections, loop, cur, call, pending, last,
                   noiseAt, ended, resp, sess, solo, torn, now, envReq, envResp>>
    /\ UNCHANGED histVars

\* ------------------------------------ POST /environment-check (107-140)
CheckEnvironment(req) ==
    /\ loop = None
    /\ envReq' = req
    /\ envResp' = CheckEnvironmentResponse(req)
    /\ UNCHANGED <<pc, tsid, active_connections, loop, cur, call, pending, last,
                   noiseAt, ended, resp, sess, solo, torn, now, calReq, calResp>>
    /\ UNCHANGED histVars

\* ------------------------------------------------------ specifications
\* The transport: every kind of message and every way a service call can end, two
\* connections and a request, with one image and one audio level.
Outcomes == {"returns", "raises", "never"}
Next ==
    \/ \E c \in Conns, s \in Sids : Connect(c, s)
    \/ \E c \in Conns : Register(c)
    \/ \E c \in Conns : Disconnect(c)
    \/ \E c \in Conns, m \in FrameMsgs({Centred}, TRUE, {TRUE}, {<<0, 0>>}), o \in Outcomes :
          RecvFrame(c, m, o)
    \/ \E c \in Conns, m \in {x \in AudioMsgs : x.level = 80} : RecvAudio(c, m)
    \/ \E c \in Conns : RecvPing(c)
    \/ \E c \in Conns : RecvOther(c)
    \/ \E c \in Conns, w \in {"badjson", "notype", "noframe"} : RecvBroken(c, w)
    \/ \E c \in Conns : Send(c)
    \/ \E t \in Tasks : ServiceReturn(t)
    \/ \E t \in Tasks : ServiceRaise(t)
    \/ \E h \in Reqs, s \in Sids, m \in FrameMsgs({Centred}, TRUE, {TRUE}, {<<0, 0>>}), o \in Outcomes :
          HttpProcessFrame(h, s, m, o)

Spec == Init /\ [][Next]_vars

\* The same, with the fairness of the event loop: a coroutine that can run does run,
\* a call that ends does end.
FairSpec ==
    /\ Spec
    /\ \A t \in Tasks : WF_vars(ServiceReturn(t)) /\ WF_vars(ServiceRaise(t))
    /\ \A c \in Conns : WF_vars(Send(c))

\* Audio samples of every level on two connections while the clock advances.
NextAudio ==
    \/ \E c \in Conns, s \in Sids : Connect(c, s)
    \/ \E c \in Conns : Register(c)
    \/ \E c \in Conns : Disconnect(c)
    \/ \E c \in Conns, m \in AudioMsgs : RecvAudio(c, m)
    \/ \E c \in Conns : Send(c)
    \/ Tick

SpecAudio == Init /\ [][NextAudio]_vars

\* Frames with no face and with a turned face for two session ids on two
\* connections, while the clock advances; every service call returns.
NextSessions ==
    \/ \E c \in Conns, s \in Sids : Connect(c, s)
    \/ \E c \in Conns : Register(c)
    \/ \E c \in Conns, m \in FrameMsgs({Absent, Turned}, FALSE, {FALSE},
                                       {<<0, 0>>}) :
          RecvFrame(c, m, "returns")
    \/ \E c \in Conns : Send(c)
    \/ \E c \in Conns : ServiceReturn(c)
    \/ Tick

SpecSessions == Init /\ [][NextSessions]_vars

\* The two stateless request/response calls, over every frame string and face count.
NextCal ==
    \/ \E req \in CalRequests : Calibrate(req)
    \/ \E req \in EnvRequests : CheckEnvironment(req)

SpecCal == Init /\ [][NextCal]_vars

\* Frames with no face and with a turned face, the baseline left out, for session A
\* on one connection, frames with no face for session B on the other, while the
\* clock advances; the last HystN frames of each session are kept.
NextClassifier ==
    \/ \E c \in Conns : Connect(c, IF c = "w1" THEN "A" ELSE "B")
    \/ \E c \in Conns : Register(c)
    \/ \E m \in FrameMsgs({Absent, Turned}, FALSE, {FALSE}, {<<0, 0>>}) :
          RecvFrame("w1", m, "returns")
    \/ \E m \in FrameMsgs({Absent}, FALSE, {FALSE}, {<<0, 0>>}) :
          RecvFrame("w2", m, "returns")
    \/ \E c \in Conns : Send(c)
    \/ \E c \in Conns : ServiceReturn(c)
    \/ Tick

SpecClassifier == InitRecorded /\ [][NextClassifier]_vars

\* Frames of one connection that carry a calibration baseline or leave it out.
NextBaseline ==
    \/ \E s \in Sids : Connect("w1", s)
    \/ Register("w1")
    \/ \E m \in FrameMsgs({Turned}, FALSE, BOOLEAN, {<<0, 20>>}) :
          RecvFrame("w1", m, "returns")
    \/ Send("w1")
    \/ ServiceReturn("w1")
    \/ \E s \in Sids, m \in FrameMsgs({Turned}, FALSE, {TRUE}, {<<0, 0>>, <<0, 20>>}) :
          HttpProcessFrame("h1", s, m, "returns")
    \/ ServiceReturn("h1")
    \/ Tick

SpecBaseline == InitRecorded /\ [][NextBaseline]_vars

\* ------------------------------------------------------------- claims
\* C1: once an audio sample above the threshold has produced an excessive_noise
\* event, a further sample above the threshold for the same session within the
\* cooldown window produces no new event.
C1_NoNoiseEventWithinCooldown ==
    \A c \in Conns : \A e \in {pending[c], last[c]} :
        (e.out = "excessive_noise" /\ e.prev # -1) => e.ts - e.prev >= Cooldown

\* C1, as the handler behaves: every audio sample above the threshold produces an
\* excessive_noise event, whatever was emitted for the session before.
C1_EveryLoudSampleEmits ==
    \A c \in Conns :
        (last[c].in = "audio" /\ last[c].lvl > NoiseThreshold)
            => last[c].out = "excessive_noise"

\* C1 witness: an excessive_noise event sent within the cooldown window of the
\* session's previous one.
C1_Witness ==
    \E c \in Conns :
        /\ last[c].out = "excessive_noise"
        /\ last[c].prev # -1
        /\ last[c].ts - last[c].prev < Cooldown

InCall(t) == pc[t] = "svc"
Undecodable == {"frame_noimg", "frame_b64err"}

\* C2: no exception raised while handling one message terminates the session: a
\* streaming handler that has terminated was ended by its client's disconnect only.
C2_FailureKeepsSession ==
    \A c \in Conns : pc[c] = "done" => ended[c] = "disconnect"

\* C3: once the teardown of a session id has completed, no frame is processed
\* against that id, neither from a streaming connection nor from /process-frame.
C3_NoFrameAfterTeardown ==
    \A t \in Tasks : InCall(t) => tsid[t] \notin torn

\* C4: a frame that fails to decode is reported to the caller with a response (and
\* no call into the service is made for it).
C4_DecodeFailureReported ==
    /\ \A c \in Conns : last[c].in \in Undecodable => last[c].out # "none"
    /\ \A h \in Reqs : pc[h] = "done" => resp[h].status # 0

\* C5: no two calls of the service's process_frame for the same session id are in
\* progress at the same time.
C5_OneFrameAtATime ==
    \A t1, t2 \in Tasks :
        (t1 # t2 /\ InCall(t1) /\ InCall(t2)) => tsid[t1] # tsid[t2]

\* C5 witness: a call is in progress for a session while another connection of the
\* same session has work ready (its response to send).
C5_Witness ==
    \E t \in Tasks, c \in Conns :
        t # c /\ tsid[t] = tsid[c] /\ InCall(t) /\ pc[c] = "send"

\* C10: no operation blocks indefinitely: a frame handed to the perception call is
\* eventually done with, also when the call never returns.  (The handlers set no
\* timeout: a call that never returns leaves its coroutine in the call, holding
\* the event loop, so the behaviour that refutes this ends with nothing running.)
C10_NoCallBlocksForever ==
    \A t \in Tasks : InCall(t) ~> ~InCall(t)

Detected(req) == Decode(req.frame) = "ok" /\ req.svc = "returns"

\* C7: with exactly one face detected, calibrate returns success with the detected
\* pitch and yaw unchanged; it returns success in no other case.
C7_OneFaceCalibrates ==
    calResp.phase = "out" =>
        /\ (Detected(calReq) /\ Pixels(calReq.frame).faces = 1) =>
              /\ calResp.success
              /\ calResp.hasPose
              /\ calResp.pitch = Pixels(calReq.frame).pitch
              /\ calResp.yaw = Pixels(calReq.frame).yaw
        /\ calResp.success => (Detected(calReq) /\ Pixels(calReq.frame).faces = 1)

\* C7 witness: a calibration of one face whose pitch and yaw differ.
C7_Witness ==
    /\ calResp.phase = "out"
    /\ calResp.success
    /\ calResp.pitch # calResp.yaw
    /\ Len(calReq.frame) > 1

\* C8: with no face or several faces detected, calibrate fails with the reason
\* that matches the face count, never with a generic message.
C8_FaceCountReason ==
    (calResp.phase = "out" /\ Detected(calReq) /\ Pixels(calReq.frame).faces # 1) =>
        /\ ~calResp.success
        /\ calResp.message = IF Pixels(calReq.frame).faces = 0 THEN "no face detected"
                             ELSE MultipleFaces

\* C8 witness: a calibration refused for several faces.
C8_Witness ==
    /\ calResp.phase = "out"
    /\ Detected(calReq)
    /\ Pixels(calReq.frame).faces > 1
    /\ calResp.message = MultipleFaces

\* C9: check_environment always returns a result with the three booleans and a
\* message, never an error; without a face, face_detected and face_centered are
\* false.
C9_EnvironmentNeverFails ==
    envResp.phase = "out" =>
        /\ envResp.kind = "result"
        /\ {envResp.lighting_ok, envResp.face_detected, envResp.face_centered}
              \subseteq BOOLEAN
        /\ envResp.message # ""
        /\ (~Detected(envReq) \/ Pixels(envReq.frame).faces = 0) =>
              (~envResp.face_detected /\ ~envResp.face_centered)

\* C9 witness: checks answered for an undecodable frame, for a failing service and
\* for a dark frame without a face are all reachable; this is the last.
C9_Witness ==
    /\ envResp.phase = "out"
    /\ Detected(envReq)
    /\ Pixels(envReq.frame).faces = 0
    /\ Pixels(envReq.frame).lum < LightMin
    /\ ~envResp.lighting_ok /\ ~envResp.face_detected /\ ~envResp.face_centered

\* C11: every frame of a session is evaluated against the same baseline, whatever
\* the individual frame messages carry or omit.
C11_BaselineFixed ==
    \A s \in Sids : \A i, j \in 1..Len(trail[s]) :
        trail[s][i].base = trail[s][j].base

\* the frame was positive for kind k
Positive(k, f) == Cond(k, f.p, f.base)

\* how many of the latest frames of q were positive for k, without a gap
RECURSIVE Streak(_, _)
Streak(k, q) ==
    IF q = <<>> \/ ~Positive(k, q[Len(q)]) THEN 0
    ELSE 1 + Streak(k, SubSeq(q, 1, Len(q) - 1))

\* C12: looking_away is returned only on a frame that completes HystN consecutive
\* frames beyond the threshold, and it is returned on the first frame that does
\* (baseline (0,0), yaw 20: nothing on frames one and two, looking_away on three).
C12_Hysteresis ==
    \A s \in Sids :
        /\ "looking_away" \in verdict[s].ev => Streak("looking_away", trail[s]) = HystN
        /\ (Streak("looking_away", trail[s]) = HystN
               /\ verdict[s].prev["looking_away"] = -1)
              => "looking_away" \in verdict[s].ev

\* C12 witness: three frames at yaw 20 against the baseline (0,0), the third of
\* which returned looking_away for the first time.
C12_Witness ==
    /\ Len(trail["A"]) = HystN
    /\ \A i \in 1..HystN : trail["A"][i] = [p |-> Turned, base |-> <<0, 0>>]
    /\ verdict["A"].ev = {"looking_away"}
    /\ verdict["A"].prev["looking_away"] = -1

\* C13: a frame without the triggering condition sets the kind's counter to 0: the
\* counter is the number of latest consecutive positive frames (up to N), and a kind
\* is returned only with N of them.
C13_Reset ==
    \A s \in Sids : \A k \in Kinds :
        /\ sess[s].cnt[k] = Min(NeedN(k), Streak(k, trail[s]))
        /\ k \in verdict[s].ev => Streak(k, trail[s]) >= NeedN(k)

\* C13 witness: N-1 frames beyond the threshold and then one without a face: the
\* counter of looking_away is back at 0.
C13_Witness ==
    /\ Len(trail["A"]) = HystN
    /\ \A i \in 1..(HystN - 1) : Positive("looking_away", trail["A"][i])
    /\ ~Positive("looking_away", trail["A"][HystN])
    /\ sess["A"].cnt["looking_away"] = 0

\* C14: no_person is not returned again while the cooldown of the session's last
\* no_person is unexpired; it is returned for a frame without a face once there is
\* no unexpired cooldown.
C14_CooldownIdempotence ==
    \A s \in Sids :
        LET prev == verdict[s].prev["no_person"]
            open == prev = -1 \/ verdict[s].t - prev >= Cooldown
        IN /\ "no_person" \in verdict[s].ev => open
           /\ (trail[s] # <<>> /\ Positive("no_person", trail[s][Len(trail[s])]) /\ open)
                 => "no_person" \in verdict[s].ev

\* C14 witness: a frame without a face that returned no no_person, the session's
\* last no_person being less than a cooldown old.
C14_Witness ==
    \E s \in Sids :
        /\ trail[s] # <<>>
        /\ Positive("no_person", trail[s][Len(trail[s])])
        /\ "no_person" \notin verdict[s].ev
        /\ verdict[s].prev["no_person"] # -1
        /\ verdict[s].t - verdict[s].prev["no_person"] < Cooldown

\* C15: an audio sample yields an event only if its level is strictly above the
\* noise threshold, the event is excessive_noise of severity medium; a sample at or
\* below the threshold, or a message without a level (0), yields nothing.
C15_NoiseOnlyAboveThreshold ==
    \A c \in Conns : \A e \in {pending[c], last[c]} :
        e.in = "audio" =>
            /\ e.out \in {"excessive_noise", "none"}
            /\ e.out = "excessive_noise" => e.lvl > NoiseThreshold /\ e.sev = "medium"
            /\ e.lvl <= NoiseThreshold => e.out = "none" /\ e.sev = ""

\* C15 witness: on one connection a sample of exactly the threshold got nothing,
\* on the other a louder one got its medium excessive_noise event.
C15_Witness ==
    \E c, d \in Conns :
        /\ last[c].in = "audio" /\ last[c].lvl = NoiseThreshold /\ last[c].out = "none"
        /\ last[d].in = "audio" /\ last[d].lvl > NoiseThreshold
        /\ last[d].out = "excessive_noise" /\ last[d].sev = "medium"

\* C16: a /process-frame request whose frame decodes to nothing is answered with
\* status 400.
C16_UndecodableIs400 ==
    \A h \in Reqs : resp[h].dec = "none" => resp[h].status = 400

\* C17: every accepted connection whose handler has not ended is the one the
\* registry holds for its session id.
C17_LiveIsRegistered ==
    \A c \in Conns :
        pc[c] \in {"recv", "svc", "send"} => active_connections[tsid[c]] = c

\* C18: the registry holds no entry of a handler that has ended: whatever it holds
\* for a session id is a connection of that id whose handler is still running.
C18_NoStaleEntries ==
    \A s \in Sids :
        active_connections[s] # None =>
            /\ pc[active_connections[s]] \in {"recv", "svc", "send"}
            /\ tsid[active_connections[s]] = s

\* C18 witness: both handlers have ended, one by the client's disconnect and one
\* by an exception, and the registry is empty.
C18_Witness ==
    /\ \A c \in Conns : pc[c] = "done"
    /\ \E c, d \in Conns : ended[c] = "disconnect" /\ ended[d] = "exception"
    /\ \A s \in Sids : active_connections[s] = None

\* C19: every frame message that decodes, and so is handed to the service, gets
\* its detection_result as the handler's next step, before the connection's next
\* message is read.
C19_FrameAnswered ==
    [][\A c \in Conns :
          (pc[c] = "svc" /\ pc'[c] # "svc")
              => pc'[c] = "send" /\ pending'[c].out = "detection_result"]_vars

====
